---- MODULE Spec2Model ----
(***************************************************************************)
(* A model of scripts/run_llm.py: the pre-commit guard that loads two SAST *)
(* reports, walks the code directory, splits every file into chunks of     *)
(* CHUNK_SIZE lines, sends each chunk to the completion endpoint with a    *)
(* bounded retry loop, and decides the exit code of the process.           *)
(***************************************************************************)
EXTENDS Integers, Sequences, FiniteSets, TLC

\* ------------------------------------------------------------------ bounds
\* Most files os.walk yields in one run.
MaxFiles == 2
\* Most characters a source file holds.
MaxLen == 2
\* Largest configured chunk size (lines per chunk).
MaxChunkSize == 2

\* ------------------------------------------------------- configuration
CODE_DIR == "../src"

N_PREDICT == 4096

\* The decimal 0.2, by its digits.
TEMPERATURE == "0.2"

MAX_RETRIES == 3

SEM_GREP_REPORT_PATH == "reports/semgrep_report.json"

SONARQUBE_REPORT_PATH == "reports/sonarqube_report.json"

ReportPaths == {SEM_GREP_REPORT_PATH, SONARQUBE_REPORT_PATH}

\* ---------------------------------------------------------- JSON values
\* A JSON value is a tagged record; an object keeps its members in order.
JStr(s) == [type |-> "string", str |-> s]

JNum(n) == [type |-> "number", num |-> n]

JArr(items) == [type |-> "array", items |-> items]

JObj(pairs) == [type |-> "object", pairs |-> pairs]

\* A string given by its characters, one after the other.
JText(chars) == [type |-> "text", chars |-> chars]

\* Python's None, for a variable that is not bound yet.
None == [type |-> "none"]

\* key in obj
HasKey(obj, key) == \E i \in 1..Len(obj.pairs) : obj.pairs[i][1] = key

\* obj[key]
Member(obj, key) ==
    obj.pairs[CHOOSE i \in 1..Len(obj.pairs) : obj.pairs[i][1] = key][2]

\* dict.get(key, default)
Get(obj, key, default) == IF HasKey(obj, key) THEN Member(obj, key) ELSE default

\* Python truthiness of the values the program tests: a list, a str.
Truthy(v) ==
    CASE v.type = "array" -> v.items # <<>>
      [] v.type = "string" -> v.str # ""
      [] v.type = "object" -> v.pairs # <<>>
      [] v.type = "number" -> v.num # 0
      [] OTHER -> FALSE

\* The characters json.dumps writes for the characters of a string: a newline
\* is written as a backslash and the letter n.
RECURSIVE Escaped(_)
Escaped(chars) ==
    IF chars = <<>> THEN ""
    ELSE (IF Head(chars) = "\n" THEN "\\n" ELSE Head(chars)) \o Escaped(Tail(chars))

\* json.dumps with its default separators.
RECURSIVE Dumps(_), DumpItems(_), DumpPairs(_)
Dumps(v) ==
    CASE v.type = "string" -> "\"" \o v.str \o "\""
      [] v.type = "text" -> "\"" \o Escaped(v.chars) \o "\""
      [] v.type = "number" -> ToString(v.num)
      [] v.type = "array" -> "[" \o DumpItems(v.items) \o "]"
      [] v.type = "object" -> "{" \o DumpPairs(v.pairs) \o "}"

DumpItems(s) ==
    IF s = <<>> THEN ""
    ELSE Dumps(Head(s)) \o (IF Len(s) > 1 THEN ", " ELSE "") \o DumpItems(Tail(s))

DumpPairs(s) ==
    IF s = <<>> THEN ""
    ELSE "\"" \o Head(s)[1] \o "\": " \o Dumps(Head(s)[2])
         \o (IF Len(s) > 1 THEN ", " ELSE "") \o DumpPairs(Tail(s))

\* ------------------------------------------------- the endpoint's answers
\* The finding of the specification's end-to-end scenario D.
Finding ==
    JObj(<< <<"file_path", JStr("a.py")>>, <<"line", JNum(12)>>,
            <<"message", JStr("hardcoded secret")>>, <<"severity", JStr("error")>> >>)

FindingsObj(items) == JObj(<< <<"findings", JArr(items)>> >>)

\* JSON values the model may write as its answer.
ModelAnswers ==
    { FindingsObj(<<>>),                          \* {"findings": []}
      FindingsObj(<<Finding>>),                   \* {"findings": [{...}]}
      JObj(<< <<"findings", JStr("none")>> >>),   \* findings is not a list
      JObj(<<>>),                                 \* {} : no findings member
      JArr(<<>>) }                                \* valid JSON, not an object

\* The texts a completion choice may carry.
Texts == {"", "I found no issues."} \cup { Dumps(a) : a \in ModelAnswers }

Completion(text) ==
    JObj(<< <<"choices", JArr(<< JObj(<< <<"text", JStr(text)>> >>) >>)>> >>)

\* Envelopes whose first choice carries no text.
BareEnvelopes ==
    { JObj(<<>>),
      JObj(<< <<"choices", JArr(<<>>)>> >>),
      JObj(<< <<"choices", JArr(<< JObj(<< <<"index", JNum(0)>> >>) >>)>> >>),
      FindingsObj(<<Finding>>) }

\* Envelopes (HTTP bodies that parse as JSON).
Envelopes == { Completion(t) : t \in Texts } \cup BareEnvelopes \cup { JArr(<<>>) }

\* The JSON documents json.loads is applied to.
JsonDocuments == ModelAnswers \cup BareEnvelopes

JSONDecodeError == [type |-> "JSONDecodeError"]

\* json.loads: the value whose serialisation the text is, or a decode error.
Loads(text) ==
    IF \E v \in JsonDocuments : Dumps(v) = text
    THEN CHOOSE v \in JsonDocuments : Dumps(v) = text
    ELSE JSONDecodeError

\* What requests.post gives back: a transport exception or an HTTP response.
\* The body of a response either parses as JSON (json) or does not.
RequestException == [kind |-> "RequestException"]

HttpResponse(status, parses, json) ==
    [kind |-> "response", status_code |-> status, parses |-> parses, json |-> json]

Responses ==
    { RequestException }
    \cup { HttpResponse(500, FALSE, None), HttpResponse(200, FALSE, None) }
    \cup { HttpResponse(200, TRUE, e) : e \in Envelopes }

\* response.json()
ResponseJson(response) == IF response.parses THEN response.json ELSE JSONDecodeError

\* ---------------------------------------------------------- file contents
Chars == {"a", "\n"}

RECURSIVE SeqsUpTo(_, _)
SeqsUpTo(S, n) ==
    IF n = 0 THEN { <<>> }
    ELSE LET shorter == SeqsUpTo(S, n - 1)
         IN  shorter \cup { Append(s, c) : s \in shorter, c \in S }

\* The decoded texts a source file may hold.
FileTexts == SeqsUpTo(Chars, MaxLen)

\* What a report file may be on disk.
ReportFileStates == {"missing", "valid", "invalid_json", "os_error", "undecodable"}

\* The parsed content of a valid report file.
ReportValue == JObj(<< <<"results", JArr(<<>>)>> >>)

EmptyMapping == JObj(<<>>)

Min(a, b) == IF a < b THEN a ELSE b

\* f.readlines(): the text cut after every newline.
RECURSIVE ReadLines(_)
ReadLines(text) ==
    IF text = <<>> THEN <<>>
    ELSE LET ends == { i \in 1..Len(text) : text[i] = "\n" }
             k == IF ends = {} THEN Len(text)
                  ELSE CHOOSE i \in ends : \A j \in ends : i <= j
         IN  <<SubSeq(text, 1, k)>> \o ReadLines(SubSeq(text, k + 1, Len(text)))

\* ''.join(chunk_lines)
RECURSIVE Join(_)
Join(ls) == IF ls = <<>> THEN <<>> ELSE Head(ls) \o Join(Tail(ls))

\* range(start, stop, step)
RECURSIVE Range(_, _, _)
Range(start, stop, step) ==
    IF start >= stop THEN <<>> ELSE <<start>> \o Range(start + step, stop, step)

\* seq[i:j]
Slice(seq, i, j) == SubSeq(seq, i + 1, Min(j, Len(seq)))

\* [lines[i:i + CHUNK_SIZE] for i in range(0, len(lines), CHUNK_SIZE)]
SplitChunks(ls, size) ==
    LET starts == Range(0, Len(ls), size)
    IN  [k \in 1..Len(starts) |-> Slice(ls, starts[k], starts[k] + size)]

EndLine_NoMin(index, size, total) == index * size

\* (chunk_index - 1) * CHUNK_SIZE + 1
StartLine(index, size) == (index - 1) * size + 1

\* min(chunk_index * CHUNK_SIZE, total_lines)
EndLine(index, size, total) == Min(index * size, total)

\* ------------------------------------------------------------- the state
VARIABLES
    \* the environment of one run
    codeDirExists,    \* os.path.isdir(CODE_DIR)
    walk,             \* files os.walk has still to yield
    CHUNK_SIZE,       \* the configured number of lines per chunk
    \* main
    pc, semgrep_report, sonarqube_report, any_findings, file_path,
    lines, total_lines, chunks, chunk_index, chunk_content,
    start_line, end_line, findings, exit_code,
    \* analyze_chunk and request_llm
    payload, attempt, response, content, final_json,
    \* what the run shows: warnings printed, the last line main printed, the
    \* error that ended it (printed by main, or by the interpreter in its
    \* traceback), why it ended
    warned, stdout, error, exitReason,
    \* history of the run
    posts,            \* HTTP POSTs issued in the run
    callPosts,        \* HTTP POSTs issued by the current request_llm call
    outstanding,      \* HTTP POSTs issued and not yet come back
    callPayloads,     \* the bodies of the POSTs of the current request_llm call
    previousPayload,  \* the payload built for the chunk before, in the current file
    loads,            \* how many times each report was loaded
    failed,           \* attempts of the current call that ended in a retryable failure
    retried,          \* how far the attempt before the last one got before it failed
    analyzed,         \* chunks handed to analyze_chunk
    expected,         \* chunks of the files read so far
    sawNonEmpty,      \* some chunk returned a non-empty findings list
    passedUnanalyzed, \* a chunk returned [] though its answer carried no findings array
    chunkLog,         \* the chunks of the current file, as reported
    fileText          \* the text of the current file

vars ==
    << codeDirExists, walk, CHUNK_SIZE,
       pc, semgrep_report, sonarqube_report, any_findings, file_path,
       lines, total_lines, chunks, chunk_index, chunk_content,
       start_line, end_line, findings, exit_code,
       payload, attempt, response, content, final_json,
       warned, stdout, error, exitReason,
       posts, callPosts, outstanding, callPayloads, previousPayload, loads,
       failed, retried, analyzed, expected,
       sawNonEmpty, passedUnanalyzed, chunkLog, fileText >>

envVars == << codeDirExists, CHUNK_SIZE >>

reportVars == << semgrep_report, sonarqube_report, warned, loads >>

fileVars == << file_path, lines, total_lines, chunks, fileText >>

chunkVars == << chunk_index, chunk_content, start_line, end_line, chunkLog >>

callVars == << payload, attempt, response, content, final_json >>

countVars ==
    << posts, callPosts, outstanding, callPayloads, previousPayload, failed,
       retried, analyzed, expected, sawNonEmpty, passedUnanalyzed >>

Running == -1

Init ==
    /\ codeDirExists \in BOOLEAN
    /\ walk \in 0..MaxFiles
    /\ CHUNK_SIZE \in 1..MaxChunkSize
    /\ pc = "load_semgrep"
    /\ semgrep_report = None
    /\ sonarqube_report = None
    /\ any_findings = FALSE
    /\ file_path = 0
    /\ lines = <<>>
    /\ total_lines = 0
    /\ chunks = <<>>
    /\ chunk_index = 0
    /\ chunk_content = <<>>
    /\ start_line = 0
    /\ end_line = 0
    /\ findings = None
    /\ exit_code = Running
    /\ payload = None
    /\ attempt = 0
    /\ response = None
    /\ content = ""
    /\ final_json = None
    /\ warned = {}
    /\ stdout = ""
    /\ error = ""
    /\ exitReason = "running"
    /\ posts = 0
    /\ callPosts = 0
    /\ outstanding = 0
    /\ callPayloads = {}
    /\ previousPayload = None
    /\ loads = [path \in ReportPaths |-> 0]
    /\ failed = 0
    /\ retried = ""
    /\ analyzed = 0
    /\ expected = 0
    /\ sawNonEmpty = FALSE
    /\ passedUnanalyzed = FALSE
    /\ chunkLog = <<>>
    /\ fileText = <<>>

\* sys.exit(code), after the diagnostic err was printed.
Exit(code, reason, err) ==
    /\ pc' = "done"
    /\ exit_code' = code
    /\ exitReason' = reason
    /\ error' = err

\* An exception no handler catches: the interpreter prints the traceback and
\* the process ends with status 1.
Uncaught(exception) ==
    /\ Exit(1, "uncaught", exception)
    /\ UNCHANGED stdout

\* print(f"[ERROR] ...")
ErrorLine(err) == "[ERROR] " \o err

AnalyzerFailure_ExitsZero(err) ==
    /\ Exit(0, "analyzer_error", err)
    /\ stdout' = ErrorLine(err)

\* except RuntimeError as e: print(f"[ERROR] {e}"); sys.exit(1)
AnalyzerFailure(err) ==
    /\ Exit(1, "analyzer_error", err)
    /\ stdout' = ErrorLine(err)

\* ------------------------------------------------------- load_json_file
\* load_json_file on a path whose file is in state st: what it returns or raises,
\* and whether it prints its warning. Only json.JSONDecodeError and OSError are
\* caught; a file that is not UTF-8 makes json.load raise UnicodeDecodeError.
load_json_file(st) ==
    CASE st = "missing" -> [raises |-> FALSE, value |-> EmptyMapping, warns |-> FALSE]
      [] st = "valid" -> [raises |-> FALSE, value |-> ReportValue, warns |-> FALSE]
      [] st = "invalid_json" -> [raises |-> FALSE, value |-> EmptyMapping, warns |-> TRUE]
      [] st = "os_error" -> [raises |-> FALSE, value |-> EmptyMapping, warns |-> TRUE]
      [] st = "undecodable" -> [raises |-> TRUE, value |-> None, warns |-> FALSE]

Warned(path, r) == IF r.warns THEN warned \cup {path} ELSE warned

\* semgrep_report = load_json_file(SEM_GREP_REPORT_PATH), the file being in state st.
LoadSemgrepFrom(st) ==
    /\ pc = "load_semgrep"
    /\ LET r == load_json_file(st)
       IN  IF r.raises
           THEN /\ Uncaught("UnicodeDecodeError")
                /\ UNCHANGED reportVars
           ELSE /\ semgrep_report' = r.value
                /\ warned' = Warned(SEM_GREP_REPORT_PATH, r)
                /\ loads' = [loads EXCEPT ![SEM_GREP_REPORT_PATH] = @ + 1]
                /\ pc' = "load_sonarqube"
                /\ UNCHANGED << sonarqube_report, stdout, exit_code, exitReason, error >>
    /\ UNCHANGED << envVars, walk, any_findings, fileVars, chunkVars, findings,
                    callVars, countVars >>

LoadSemgrep == \E st \in ReportFileStates : LoadSemgrepFrom(st)

\* sonarqube_report = load_json_file(SONARQUBE_REPORT_PATH), the file being in state st.
LoadSonarqubeFrom(st) ==
    /\ pc = "load_sonarqube"
    /\ LET r == load_json_file(st)
       IN  IF r.raises
           THEN /\ Uncaught("UnicodeDecodeError")
                /\ UNCHANGED reportVars
           ELSE /\ sonarqube_report' = r.value
                /\ warned' = Warned(SONARQUBE_REPORT_PATH, r)
                /\ loads' = [loads EXCEPT ![SONARQUBE_REPORT_PATH] = @ + 1]
                /\ pc' = "check_dir"
                /\ UNCHANGED << semgrep_report, stdout, exit_code, exitReason, error >>
    /\ UNCHANGED << envVars, walk, any_findings, fileVars, chunkVars, findings,
                    callVars, countVars >>

LoadSonarqube == \E st \in ReportFileStates : LoadSonarqubeFrom(st)

\* if not os.path.isdir(CODE_DIR): sys.exit(0); any_findings = False
CheckDir ==
    /\ pc = "check_dir"
    /\ IF ~codeDirExists
       THEN /\ Exit(0, "no_dir", "")
            /\ stdout' = "[INFO] Folder '" \o CODE_DIR \o "' not found. No files to analyze."
       ELSE /\ pc' = "walk"
            /\ UNCHANGED << stdout, exit_code, exitReason, error >>
    /\ any_findings' = (IF codeDirExists THEN FALSE ELSE any_findings)
    /\ UNCHANGED << envVars, walk, reportVars, fileVars, chunkVars, findings,
                    callVars, countVars >>

\* ----------------------------------------------------------- request_llm
IsLastAttempt_OffByOne(n) == n = MAX_RETRIES - 1

\* attempt == MAX_RETRIES
IsLastAttempt(n) == n = MAX_RETRIES

NextAttempt_Again(n) == n

\* for attempt in range(1, MAX_RETRIES + 1): the attempt after attempt n
NextAttempt(n) == n + 1

\* The raw answer of an envelope: the first choice's text, else the envelope
\* serialised again.
ExtractContent(resp_json) ==
    LET choices == Get(resp_json, "choices", JArr(<<>>))
    IN  IF Truthy(choices) /\ HasKey(choices.items[1], "text")
        THEN Member(choices.items[1], "text").str
        ELSE Dumps(resp_json)

ParsedAnswer_Envelope(resp_json, text) == resp_json

\* final_json = json.loads(content); return final_json
ParsedAnswer(resp_json, text) == Loads(text)

Failure(message, text) ==
    [result |-> "failure", error |-> message, content |-> text, value |-> None]

\* One pass through the body of the retry loop, given what requests.post gave back.
AttemptOutcome(r) ==
    IF r.kind = "RequestException"
    THEN Failure("Max retries reached. Unable to connect to LLM.", "")
    ELSE IF r.status_code # 200
    THEN Failure("LLM server error", "")
    ELSE IF ResponseJson(r) = JSONDecodeError
    THEN Failure("Max retries reached. LLM response is not valid JSON.", "")
    ELSE IF ResponseJson(r).type # "object"
    THEN [result |-> "AttributeError", error |-> "AttributeError",
          content |-> "", value |-> None]
    ELSE LET text == ExtractContent(ResponseJson(r))
         IN  IF text = ""
             THEN Failure("Max retries reached. LLM response is empty.", "")
             ELSE IF Loads(text) = JSONDecodeError
             THEN Failure("Max retries reached. LLM output is not valid JSON.", text)
             ELSE [result |-> "return", error |-> "", content |-> text,
                   value |-> ParsedAnswer(ResponseJson(r), text)]

\* The loop body's outcome for every response the endpoint may give.
Outcomes == [r \in Responses |-> AttemptOutcome(r)]

\* The check of the loop body that a failed attempt did not pass, by the name
\* the failure has: the transport (except RequestException), the status, the
\* body (response.json()), the raw answer being empty, the raw answer not
\* parsing.
FailureKind(r) ==
    IF r.kind = "RequestException" THEN "ConnectionError"
    ELSE IF r.status_code # 200 THEN "ServerError"
    ELSE IF ~r.parses THEN "InvalidEnvelope"
    ELSE IF ExtractContent(r.json) = "" THEN "EmptyResponse"
    ELSE "MalformedModelOutput"

\* How far a failed attempt got: requests.post raised, or it gave a response
\* that one of the checks after it did not pass.
Reached(r) == IF r.kind = "RequestException" THEN "transport" ELSE "response"

\* The failure of every response that fails an attempt.
FailureKinds == [r \in Responses |-> FailureKind(r)]

ExhaustedError_AfterLoop(o) ==
    "Failed to get a valid response from LLM after multiple attempts."

\* if attempt == MAX_RETRIES: raise RuntimeError(...), in the branch of the
\* failure the attempt ended with.
ExhaustedError(o) == o.error

\* The messages request_llm raises with once its attempts are used up.
ExhaustedErrors ==
    { "Max retries reached. Unable to connect to LLM.",
      "LLM server error",
      "Max retries reached. LLM response is not valid JSON.",
      "Max retries reached. LLM response is empty.",
      "Max retries reached. LLM output is not valid JSON." }

\* ----------------------------------------------------------- build_prompt
\* os.path.join(root, filename), for the n-th file os.walk yields.
FilePath(n) == CODE_DIR \o "/file" \o ToString(n)

\* The template up to the data (stripped; the seven rules are not spelled out).
PromptHead ==
    "You are a data-sensitive detection LLM used in a Git pre-commit hook.\n\n"
    \o "RULES:\n1) Output ONLY valid JSON with a top-level \"findings\" array.\n"
    \o "...\n\nDATA:\n"

\* The template after the data.
PromptTail ==
    "\n\nRemember: give me the issues only with a json, the entire output should "
    \o "be a json, with a top-level \"findings\" array. "
    \o "No extra text, explanations, or code."

\* The template of build_prompt filled in; the file path is taken and not used.
build_prompt(data_str, path) == PromptHead \o data_str \o PromptTail

\* ---------------------------------------------------------- analyze_chunk
\* combined_input = {"code": {file_path: chunk_content}, "semgrep": ..., "sonarqube": ...}
CombinedInput(path, text, semgrep, sonarqube) ==
    JObj(<< <<"code", JObj(<< <<path, JText(text)>> >>)>>,
            <<"semgrep", semgrep>>,
            <<"sonarqube", sonarqube>> >>)

\* The payload for /v1/completions; the decimals by their digits.
Payload(prompt) ==
    [prompt |-> prompt, max_tokens |-> N_PREDICT, temperature |-> TEMPERATURE,
     top_p |-> "0.9", top_k |-> 40, repeat_last_n |-> 64, repeat_penalty |-> "1.2"]

\* The payload analyze_chunk builds for a chunk.
PayloadOf(path, text, semgrep, sonarqube) ==
    Payload(build_prompt(Dumps(CombinedInput(path, text, semgrep, sonarqube)), path))

Sent_WithAttempt(body, n) == [body EXCEPT !.prompt = @ \o "\nAttempt " \o ToString(n)]

\* requests.post(LLM_SERVER_URL, json=payload): the body of the request that
\* attempt n makes.
Sent(body, n) == body

\* final_json.get("findings", [])
GetFindings(json) == Get(json, "findings", JArr(<<>>))

\* isinstance(findings, list)
IsList(v) == v.type = "array"

SchemaError == "Field 'findings' is not a list in the returned JSON."

\* ------------------------------------------------------------------ main
MarkFindings_Overwrites(flag, found) == Truthy(found)

\* if findings: any_findings = True
MarkFindings(flag, found) == IF Truthy(found) THEN TRUE ELSE flag

\* print(f" -> Chunk #{chunk_index} (lines {start_line}-{end_line} of {total_lines})")
ChunkLine(index, first, last, total) ==
    " -> Chunk #" \o ToString(index) \o " (lines " \o ToString(first) \o "-"
    \o ToString(last) \o " of " \o ToString(total) \o ")"

ReportFindings_Silent(found, out) == out

\* if findings: print("[BLOCK] Issues found in chunk ..."); print(json.dumps(findings, ...)):
\* what main printed last, out being what it had printed last before.
ReportFindings(found, out) == IF Truthy(found) THEN Dumps(found) ELSE out

BlockedLine == "[BLOCK] Sensitive data or vulnerabilities found. Commit blocked."

\* The line printed once the traversal is over.
Verdict(flag) ==
    IF flag THEN BlockedLine
    ELSE "[OK] No issues found in all chunks. Commit proceeds."

\* The status main exits with once the traversal is over.
FinalExitCode(flag) == IF flag THEN 1 ELSE 0

ExitsOnFindings_Uncommented(found) == Truthy(found)

\* Whether main exits as soon as a chunk has findings (the sys.exit(1) under
\* "if findings:" is commented out).
ExitsOnFindings(found) == FALSE

\* The chunks a text of the given number of lines makes.
CeilDiv(n, size) == (n + size - 1) \div size

\* for root, dirs, files in os.walk(CODE_DIR): for filename in files
NextFile ==
    /\ pc = "walk"
    /\ IF walk = 0
       THEN /\ pc' = "decide"
            /\ UNCHANGED << walk, file_path, stdout >>
       ELSE /\ walk' = walk - 1
            /\ file_path' = file_path + 1
            /\ stdout' = "Analyzing file: " \o FilePath(file_path + 1)
            /\ pc' = "read"
    /\ UNCHANGED << envVars, reportVars, any_findings, lines, total_lines, chunks,
                    fileText, chunkVars, findings, exit_code, callVars, error,
                    exitReason, countVars >>

\* The diagnostic of a file that cannot be read.
ReadError == "Unable to read"

UnreadableFile_Skips ==
    /\ pc' = "walk"
    /\ error' = ReadError
    /\ stdout' = ErrorLine(ReadError)
    /\ UNCHANGED << exit_code, exitReason >>

\* except OSError as e: print(f"[ERROR] Unable to read ..."); sys.exit(1)
UnreadableFile ==
    /\ Exit(1, "unreadable", ReadError)
    /\ stdout' = ErrorLine(ReadError)

\* The file cannot be opened or read.
ReadFails ==
    /\ pc = "read"
    /\ UnreadableFile
    /\ UNCHANGED << envVars, walk, reportVars, any_findings, fileVars, chunkVars,
                    findings, callVars, countVars >>

\* lines = f.readlines(); skip an empty file; else split it into chunks.
ReadFile ==
    /\ pc = "read"
    /\ \E text \in FileTexts :
          IF Len(ReadLines(text)) = 0
          THEN /\ pc' = "walk"
               /\ stdout' = "[INFO] Empty file: " \o FilePath(file_path)
               /\ UNCHANGED << fileText, lines, total_lines, chunks, chunk_index,
                               chunkLog, expected >>
          ELSE /\ fileText' = text
               /\ UNCHANGED stdout
               /\ lines' = ReadLines(text)
               /\ total_lines' = Len(ReadLines(text))
               /\ chunks' = SplitChunks(ReadLines(text), CHUNK_SIZE)
               /\ chunk_index' = 1
               /\ chunkLog' = <<>>
               /\ expected' = expected + CeilDiv(Len(ReadLines(text)), CHUNK_SIZE)
               /\ pc' = "chunk"
    /\ UNCHANGED << envVars, walk, reportVars, any_findings, file_path,
                    chunk_content, start_line, end_line, findings, exit_code,
                    callVars, error, exitReason,
                    posts, callPosts, outstanding, callPayloads, previousPayload,
                    failed, retried, analyzed, sawNonEmpty, passedUnanalyzed >>

\* for chunk_index, chunk_lines in enumerate(chunks, start=1): the range is
\* printed and analyze_chunk is called, which builds the payload and enters
\* request_llm. When the chunks are used up the walk goes on; the names bound
\* for this file are bound again before they are next read.
NextChunk ==
    /\ pc = "chunk"
    /\ IF chunk_index > Len(chunks)
       THEN /\ pc' = "walk"
            /\ lines' = <<>>
            /\ total_lines' = 0
            /\ chunks' = <<>>
            /\ fileText' = <<>>
            /\ chunk_index' = 0
            /\ chunk_content' = <<>>
            /\ start_line' = 0
            /\ end_line' = 0
            /\ chunkLog' = <<>>
            /\ previousPayload' = None
            /\ UNCHANGED << payload, attempt, analyzed, callPosts, callPayloads,
                            failed, retried, stdout >>
       ELSE /\ chunk_content' = Join(chunks[chunk_index])
            /\ start_line' = StartLine(chunk_index, CHUNK_SIZE)
            /\ end_line' = EndLine(chunk_index, CHUNK_SIZE, total_lines)
            /\ chunkLog' = Append(chunkLog,
                                  [start_line |-> StartLine(chunk_index, CHUNK_SIZE),
                                   end_line |-> EndLine(chunk_index, CHUNK_SIZE, total_lines),
                                   chunk_lines |-> chunks[chunk_index],
                                   chunk_content |-> Join(chunks[chunk_index])])
            /\ stdout' = ChunkLine(chunk_index, StartLine(chunk_index, CHUNK_SIZE),
                                    EndLine(chunk_index, CHUNK_SIZE, total_lines),
                                    total_lines)
            /\ analyzed' = analyzed + 1
            /\ payload' = PayloadOf(FilePath(file_path), Join(chunks[chunk_index]),
                                    semgrep_report, sonarqube_report)
            /\ attempt' = 1
            /\ callPosts' = 0
            /\ callPayloads' = {}
            /\ failed' = 0
            /\ retried' = ""
            /\ pc' = "post"
            /\ UNCHANGED << lines, total_lines, chunks, fileText, chunk_index,
                            previousPayload >>
    /\ UNCHANGED << envVars, walk, reportVars, any_findings, file_path,
                    findings, exit_code, response, content, final_json, error,
                    exitReason, posts, outstanding, expected, sawNonEmpty,
                    passedUnanalyzed >>

AfterResponse_NotAwaited(n) == n

\* requests.post returns or raises only when the exchange is over: the POSTs
\* outstanding once it has come back, of n before.
AfterResponse(n) == n - 1

\* response = requests.post(LLM_SERVER_URL, json=payload): the request goes out.
Post ==
    /\ pc = "post"
    /\ posts' = posts + 1
    /\ callPosts' = callPosts + 1
    /\ outstanding' = outstanding + 1
    /\ callPayloads' = callPayloads \cup {Sent(payload, attempt)}
    /\ pc' = "await"
    /\ UNCHANGED << envVars, walk, reportVars, any_findings, fileVars, chunkVars,
                    findings, exit_code, callVars, stdout, error, exitReason,
                    previousPayload, failed, retried, analyzed, expected,
                    sawNonEmpty, passedUnanalyzed >>

\* analyze_chunk once request_llm has returned json: the findings are taken
\* and checked to be a list. A json that is no object has no get: AttributeError,
\* which main does not catch.
AnalyzeReturn(json) ==
    IF json.type # "object"
    THEN /\ Uncaught("AttributeError")
         /\ UNCHANGED findings
    ELSE IF ~IsList(GetFindings(json))
    THEN /\ AnalyzerFailure(SchemaError)
         /\ UNCHANGED findings
    ELSE /\ findings' = GetFindings(json)
         /\ pc' = "analyzed"
         /\ UNCHANGED << stdout, exit_code, exitReason, error >>

\* requests.post comes back and the rest of the loop body runs: the attempt
\* fails (retry, or raise on the last attempt: main catches the RuntimeError,
\* prints it and exits 1), or request_llm returns final_json and analyze_chunk
\* goes on with it. A retry binds response anew before it is read.
Receive ==
    /\ pc = "await"
    /\ outstanding' = AfterResponse(outstanding)
    /\ \E r \in Responses :
          LET o == Outcomes[r]
          IN  IF o.result = "return"
              THEN /\ response' = r
                   /\ content' = o.content
                   /\ final_json' = o.value
                   /\ AnalyzeReturn(o.value)
                   /\ retried' = ""
                   /\ UNCHANGED << attempt, failed >>
              ELSE IF o.result = "AttributeError"
              THEN /\ response' = r
                   /\ Uncaught("AttributeError")
                   /\ retried' = ""
                   /\ UNCHANGED << attempt, failed, content, final_json, findings >>
              ELSE /\ failed' = failed + 1
                   /\ IF IsLastAttempt(attempt)
                      THEN /\ response' = r
                           /\ content' = o.content
                           /\ AnalyzerFailure(ExhaustedError(o))
                           /\ UNCHANGED << attempt, retried, final_json, findings >>
                      ELSE /\ attempt' = NextAttempt(attempt)
                           /\ retried' = (IF IsLastAttempt(NextAttempt(attempt))
                                           THEN Reached(r) ELSE "")
                           /\ pc' = "post"
                           /\ UNCHANGED << response, content, final_json, findings,
                                           stdout, exit_code, exitReason, error >>
    /\ UNCHANGED << envVars, walk, reportVars, any_findings, fileVars, chunkVars,
                    payload, posts, callPosts, callPayloads, previousPayload,
                    analyzed, expected, sawNonEmpty, passedUnanalyzed >>

\* Whether a JSON value carries a findings array.
CarriesFindings(json) ==
    /\ json.type = "object"
    /\ HasKey(json, "findings")
    /\ Member(json, "findings").type = "array"

\* analyze_chunk has returned the findings: main prints them and marks the run
\* when there are any, and goes on with the next chunk.
HandleFindings ==
    /\ pc = "analyzed"
    /\ any_findings' = MarkFindings(any_findings, findings)
    /\ stdout' = ReportFindings(findings, stdout)
    /\ sawNonEmpty' = (sawNonEmpty \/ findings.items # <<>>)
    /\ passedUnanalyzed' =
           (passedUnanalyzed \/ (findings.items = <<>> /\ ~CarriesFindings(final_json)))
    /\ attempt' = 0
    /\ callPosts' = 0
    /\ callPayloads' = {}
    /\ previousPayload' = payload
    /\ failed' = 0
    /\ retried' = ""
    /\ payload' = None
    /\ response' = None
    /\ content' = ""
    /\ final_json' = None
    /\ findings' = None
    /\ IF ExitsOnFindings(findings)
       THEN /\ Exit(1, "findings", "")
            /\ UNCHANGED chunk_index
       ELSE /\ chunk_index' = chunk_index + 1
            /\ pc' = "chunk"
            /\ UNCHANGED << exit_code, exitReason, error >>
    /\ UNCHANGED << envVars, walk, reportVars, fileVars, chunk_content, start_line,
                    end_line, chunkLog, posts, outstanding, analyzed, expected >>

\* After the traversal: sys.exit(1) if any_findings else sys.exit(0).
Decide ==
    /\ pc = "decide"
    /\ Exit(FinalExitCode(any_findings), IF any_findings THEN "findings" ELSE "ok", "")
    /\ stdout' = Verdict(any_findings)
    /\ UNCHANGED << envVars, walk, reportVars, any_findings, fileVars, chunkVars,
                    findings, callVars, countVars >>

Next ==
    \/ LoadSemgrep
    \/ LoadSonarqube
    \/ CheckDir
    \/ NextFile
    \/ ReadFails
    \/ ReadFile
    \/ NextChunk
    \/ Post
    \/ Receive
    \/ HandleFindings
    \/ Decide

Spec == Init /\ [][Next]_vars

\* The interpreter goes on to the next statement while there is one, and every
\* POST comes back, with a response or with a transport error.
FairSpec == Spec /\ WF_vars(Next)

\* ------------------------------------------------------------ properties
FatalReasons == {"unreadable", "analyzer_error", "uncaught"}

\* request_llm has returned to analyze_chunk in the current call.
Returned == final_json # None

\* Every chunk of the current file has been through the loop.
FileDone == pc = "chunk" /\ chunk_index > Len(chunks)

\* C1: request_llm raises its retry error only when MAX_RETRIES attempts of the
\* call have failed, each with its own POST, and a call whose MAX_RETRIES
\* attempts all failed has issued exactly MAX_RETRIES POSTs and has raised.
C1_RetriesExactly ==
    /\ error \in ExhaustedErrors =>
          /\ pc = "done"
          /\ failed = MAX_RETRIES
          /\ callPosts = MAX_RETRIES
          /\ attempt = MAX_RETRIES
    /\ failed = MAX_RETRIES => (error \in ExhaustedErrors /\ callPosts = MAX_RETRIES)
    /\ failed <= MAX_RETRIES
    /\ callPosts <= MAX_RETRIES

C1_Witness ==
    /\ error \in ExhaustedErrors
    /\ failed = MAX_RETRIES
    /\ callPosts = MAX_RETRIES

\* C2: when request_llm returns on attempt k after k-1 failed attempts, it
\* returns the JSON that the raw answer of attempt k parses to, and the call
\* has issued exactly k POSTs, none after the successful attempt.
C2_SuccessShortCircuits ==
    Returned =>
        /\ attempt \in 1..MAX_RETRIES
        /\ failed = attempt - 1
        /\ callPosts = attempt
        /\ response.kind = "response"
        /\ response.status_code = 200
        /\ response.parses
        /\ content # ""
        /\ Dumps(final_json) = content
        /\ pc \in {"analyzed", "done"}

C2_Witness ==
    /\ Returned
    /\ attempt = 2
    /\ callPosts = 2
    /\ pc = "analyzed"

\* C3: analyze_chunk raises the schema error whenever the parsed response has
\* no findings member of list type, and otherwise returns that list unchanged.
C3_SchemaViolationOnMissingFindings ==
    Returned =>
        IF CarriesFindings(final_json)
        THEN pc = "analyzed" /\ findings = Member(final_json, "findings")
        ELSE pc = "done" /\ error = SchemaError

C5_ExitCodeIffFindings ==
    (pc = "done" /\ exitReason \notin FatalReasons) =>
        /\ exit_code \in {0, 1}
        /\ exit_code = 1 <=> sawNonEmpty
        /\ exitReason # "no_dir" => (walk = 0 /\ analyzed = expected)

C5_Witness ==
    /\ pc = "done"
    /\ exitReason = "findings"
    /\ exit_code = 1
    /\ analyzed = 2

\* C6: when analyze_chunk fails for a chunk the run is over with exit code 1 at
\* that chunk: the chunks sent are those up to the failing one, nothing can
\* happen afterwards, and when the failing chunk is the first of the run and
\* its attempts were used up, the run has made exactly MAX_RETRIES POSTs.
C6_AnalyzerFailureAborts ==
    exitReason = "analyzer_error" =>
        /\ pc = "done"
        /\ exit_code = 1
        /\ chunk_index \in 1..Len(chunks)
        /\ analyzed = expected - (Len(chunks) - chunk_index)
        /\ ~ENABLED Next
        /\ (analyzed = 1 /\ error \in ExhaustedErrors) => posts = MAX_RETRIES

C6_Witness ==
    /\ exitReason = "analyzer_error"
    /\ error = "Max retries reached. LLM output is not valid JSON."
    /\ Len(chunks) = 2
    /\ chunk_index = 1
    /\ posts = MAX_RETRIES

\* C7: the run exits 0 only if every chunk of every non-empty file was
\* analyzed: its answer carried a findings array, and the array was empty.
C7_PassOnlyWhenAnalyzed ==
    (pc = "done" /\ exit_code = 0) => (analyzed = expected /\ ~passedUnanalyzed)

\* C8: when the code directory does not exist the run exits 0 without any HTTP
\* POST, having done nothing but load the two reports.
C8_AbsentDirExitsZero ==
    (pc = "done" /\ ~codeDirExists) =>
        /\ exit_code = 0
        /\ posts = 0
        /\ semgrep_report # None
        /\ sonarqube_report # None
        /\ file_path = 0
        /\ analyzed = 0

\* C9: a chunk with findings does not end the run: a run that exits because of
\* findings has gone through every file and every chunk first.
C9_FindingsDoNotEndRun ==
    /\ exitReason = "findings" =>
          /\ pc = "done"
          /\ exit_code = 1
          /\ walk = 0
          /\ analyzed = expected
    /\ (any_findings /\ pc = "done") => exitReason \in FatalReasons \cup {"findings"}

C9_Witness ==
    /\ pc = "await"
    /\ any_findings
    /\ file_path = 2

\* C10: load_json_file never raises to its caller, and for contents that are
\* not valid JSON and for a file that cannot be read it returns the empty
\* mapping and prints its warning.
C10_LoadNeverRaises ==
    [][ \A st \in ReportFileStates :
          /\ LoadSemgrepFrom(st) =>
                /\ pc' = "load_sonarqube"
                /\ st \in {"invalid_json", "os_error", "undecodable"} =>
                      /\ semgrep_report' = EmptyMapping
                      /\ SEM_GREP_REPORT_PATH \in warned'
          /\ LoadSonarqubeFrom(st) =>
                /\ pc' = "check_dir"
                /\ st \in {"invalid_json", "os_error", "undecodable"} =>
                      /\ sonarqube_report' = EmptyMapping
                      /\ SONARQUBE_REPORT_PATH \in warned' ]_vars

\* C11: a source file that cannot be read ends the run at once with exit code
\* 1, whether or not earlier files had findings: nothing runs after it, no
\* chunk of that file was made or sent, and the only chunks analyzed are those
\* of the files read before it.
C11_UnreadableFileAborts ==
    error = ReadError =>
        /\ pc = "done"
        /\ exit_code = 1
        /\ exitReason = "unreadable"
        /\ ~ENABLED Next
        /\ chunks = <<>>
        /\ chunkLog = <<>>
        /\ analyzed = expected

C11_Witness ==
    /\ error = ReadError
    /\ exit_code = 1
    /\ any_findings
    /\ file_path = MaxFiles
    /\ posts > 0

\* The error request_llm raises for each kind of failure.
ErrorOfKind ==
    [k \in {"ConnectionError", "ServerError", "InvalidEnvelope", "EmptyResponse",
            "MalformedModelOutput"} |->
        CASE k = "ConnectionError" -> "Max retries reached. Unable to connect to LLM."
          [] k = "ServerError" -> "LLM server error"
          [] k = "InvalidEnvelope" -> "Max retries reached. LLM response is not valid JSON."
          [] k = "EmptyResponse" -> "Max retries reached. LLM response is empty."
          [] k = "MalformedModelOutput" -> "Max retries reached. LLM output is not valid JSON."]

\* C12: when the attempts of a call are used up, the error raised is the one of
\* the failure of the last attempt, whatever the attempts before it failed with.
C12_ErrorOfFinalAttempt ==
    failed = MAX_RETRIES =>
        /\ pc = "done"
        /\ exitReason = "analyzer_error"
        /\ attempt = MAX_RETRIES
        /\ retried \in {"transport", "response"}
        /\ error = ErrorOfKind[FailureKinds[response]]

\* The last attempt could not connect; the one before it had a response, which
\* failed otherwise.
C12_Witness ==
    /\ failed = MAX_RETRIES
    /\ retried = "response"
    /\ FailureKinds[response] = "ConnectionError"
    /\ error = "Max retries reached. Unable to connect to LLM."

\* The envelope has a non-empty choices array whose first element carries a
\* text member.
HasFirstChoiceText(envelope) ==
    /\ envelope.type = "object"
    /\ HasKey(envelope, "choices")
    /\ Member(envelope, "choices").type = "array"
    /\ Member(envelope, "choices").items # <<>>
    /\ Member(envelope, "choices").items[1].type = "object"
    /\ HasKey(Member(envelope, "choices").items[1], "text")

\* The raw answer an envelope is said to have.
RawAnswer(envelope) ==
    IF HasFirstChoiceText(envelope)
    THEN Member(Member(envelope, "choices").items[1], "text").str
    ELSE Dumps(envelope)

\* C13: the raw answer of an attempt whose body parsed is the text of the
\* first choice when the envelope has a non-empty choices array whose first
\* element carries a text, and the envelope serialised again in every other
\* case; an empty raw answer is not returned, it fails the attempt.
C13_RawAnswerOfEnvelope ==
    (response # None /\ response.kind = "response" /\ response.status_code = 200
        /\ response.parses) =>
        IF RawAnswer(response.json) = ""
        THEN ~Returned /\ failed = MAX_RETRIES
                /\ error = "Max retries reached. LLM response is empty."
        ELSE content = RawAnswer(response.json)

\* C14: requests are strictly sequential. At most one POST is outstanding, and
\* a POST goes out only when none is; every POST is for the chunk being
\* analyzed, and the run never goes back to an earlier chunk, so all POSTs of
\* a chunk come before the first POST of the next; the chunks of a file are
\* analyzed in increasing order of their start line.
C14_StrictlySequential ==
    /\ [](/\ outstanding \in {0, 1}
          /\ outstanding = 1 <=> pc = "await"
          /\ \A i \in 1..Len(chunkLog) : \A j \in 1..Len(chunkLog) :
                i < j => chunkLog[i].start_line < chunkLog[j].start_line
          /\ pc \in {"post", "await"} =>
                /\ Len(chunkLog) = chunk_index
                /\ chunkLog[chunk_index].start_line = start_line
                /\ callPosts <= posts)
    /\ [][ /\ analyzed' >= analyzed
           /\ posts' # posts =>
                 /\ posts' = posts + 1
                 /\ outstanding = 0
                 /\ analyzed' = analyzed
                 /\ << file_path, chunk_index, start_line >>'
                       = << file_path, chunk_index, start_line >>
           /\ analyzed' # analyzed =>
                 /\ analyzed' = analyzed + 1
                 /\ outstanding = 0
                 /\ callPosts' = 0
                 /\ posts' = posts ]_vars

\* A retry is outstanding for the second chunk of the second file.
C14_Witness ==
    /\ pc = "await"
    /\ outstanding = 1
    /\ callPosts = 2
    /\ chunk_index = 2
    /\ file_path = 2
    /\ posts > callPosts

\* The texts a chunk may hold.
ChunkTexts == FileTexts \ { <<>> }

\* The payloads that embed the two report values, whatever the code they carry.
PayloadsEmbedding(semgrep, sonarqube) ==
    { PayloadOf(FilePath(n), text, semgrep, sonarqube) :
          n \in 1..MaxFiles, text \in ChunkTexts }

\* C15: each of the two reports is loaded exactly once in a run, before any
\* POST, and is not modified afterwards; every request embeds the semgrep value
\* and the sonarqube value that were loaded.
C15_ReportsLoadedOnce ==
    /\ [](/\ \A path \in ReportPaths : loads[path] <= 1
          /\ posts > 0 => \A path \in ReportPaths : loads[path] = 1
          /\ pc = "done" => \A path \in ReportPaths : loads[path] = 1
          /\ callPayloads # {} =>
                callPayloads \subseteq PayloadsEmbedding(semgrep_report, sonarqube_report))
    /\ [][ /\ loads[SEM_GREP_REPORT_PATH] = 1 => semgrep_report' = semgrep_report
           /\ loads[SONARQUBE_REPORT_PATH] = 1 => sonarqube_report' = sonarqube_report
         ]_vars

\* The exceptions that end the run uncaught: the interpreter prints the
\* traceback, whose last line names the exception.
Tracebacks == {"AttributeError", "UnicodeDecodeError"}

C17_TerminatesWithinBudget ==
    /\ <>(pc = "done")
    /\ [](/\ posts <= MAX_RETRIES * analyzed
          /\ analyzed <= expected
          /\ pc = "done" =>
                /\ exit_code \in {0, 1}
                /\ ~ENABLED Next
                /\ \/ exitReason \in FatalReasons
                   \/ exitReason = "no_dir" /\ posts = 0
                   \/ exitReason \in {"ok", "findings"} /\ walk = 0
                         /\ analyzed = expected)

\* A run of two chunks, each answered at its last attempt, that exits 0.
C17_Witness ==
    /\ pc = "done"
    /\ exit_code = 0
    /\ exitReason = "ok"
    /\ analyzed = 2
    /\ posts = MAX_RETRIES * 2

\* request_llm is at work for the current chunk.
InCall == pc \in {"post", "await", "analyzed"}

\* C18: every attempt of a call sends the same payload, the one analyze_chunk
\* built for the chunk from the file path, the chunk text and the two reports;
\* it is built once, unchanged by the attempts and their responses, and a
\* chunk with the inputs of the chunk before it has the payload of that chunk.
C18_SamePayloadEveryAttempt ==
    /\ [](/\ callPayloads \subseteq {payload}
          /\ InCall =>
                /\ payload = PayloadOf(FilePath(file_path), chunk_content,
                                       semgrep_report, sonarqube_report)
                /\ callPosts > 0 => callPayloads = {payload}
                /\ (chunk_index >= 2 /\ chunks[chunk_index] = chunks[chunk_index - 1])
                      => payload = previousPayload)
    /\ [][(payload # None /\ payload' # None) => payload' = payload]_vars

\* The third attempt for a chunk whose text is that of the chunk before it.
C18_Witness ==
    /\ pc = "await"
    /\ attempt = MAX_RETRIES
    /\ callPosts = MAX_RETRIES
    /\ callPayloads = {payload}
    /\ chunk_index = 2
    /\ chunks[2] = chunks[1]
    /\ previousPayload = payload

====
